---- MODULE Spec2Model ----
(***************************************************************************)
(* Gas absorption lookup table (src/src/gas_abs_lookup.cc):                *)
(*   find_new_grid_in_old_grid   the grid locator                          *)
(*   GasAbsLookup::Adapt         reduction of a table to a species and     *)
(*                               frequency subset                          *)
(*                                                                         *)
(* Conventions.  Array, Vector, Matrix and Tensor4 objects are functions   *)
(* indexed from 0, as in the source.  Numeric values are integers; the     *)
(* comparisons and subtractions of the source are exact on them.           *)
(***************************************************************************)
EXTENDS Integers, Sequences, FiniteSets, TLC

\* ------------------------------------------------------------------ bounds
\* Largest number of species in a table or in a request.
MaxSpecies == 2
\* Largest number of points of a frequency grid (table or request); the
\* frequencies are drawn from 0..MaxFreq.
MaxFreq == 3
\* Largest number of pressure grid points.
MaxPress == 2
\* Largest number of temperature perturbations.
MaxTPert == 1
\* Largest number of humidity (nonlinear species) perturbations.
MaxHPert == 2
\* Largest number of Adapt calls made on one table.
MaxCalls == 2
\* Largest number of points of a grid handed to the grid locator on its own;
\* the values are drawn from 0..2*MaxGrid.
MaxGrid == 3
\* Callers of Extract that run at the same time.
MaxCallers == 2
\* Largest interpolation order asked of Extract; the tables it is tried on
\* have grids of up to MaxOrder + 1 pressures and perturbations.
MaxOrder == 1

\* ------------------------------------------------------- array primitives
nelem(v) == Cardinality(DOMAIN v)

Abs(x) == IF x < 0 THEN -x ELSE x

Max(a, b) == IF a >= b THEN a ELSE b

\* The empty Array / Vector.
Empty == <<>>

\* push_back on a 0-based array.
PushBack(v, x) == [k \in 0..nelem(v) |-> IF k < nelem(v) THEN v[k] ELSE x]

\* All strictly increasing 0-based vectors over the values vals, of at most
\* maxlen elements: one per subset.
RECURSIVE SortedOf(_)
SortedOf(S) ==
  IF S = {} THEN Empty
  ELSE LET m == CHOOSE x \in S : \A y \in S : y <= x
       IN  PushBack(SortedOf(S \ {m}), m)

IncreasingVectors(vals, maxlen) ==
  { SortedOf(S) : S \in { T \in SUBSET vals : Cardinality(T) <= maxlen } }

\* The vector v read back to front.
Reverse(v) == [k \in DOMAIN v |-> v[nelem(v) - 1 - k]]

\* --------------------------------------------- logic.cc / check_input.cc
\* is_increasing: strictly increasing, duplicates not allowed.
is_increasing(x) == \A k \in DOMAIN x : (k + 1) \in DOMAIN x => x[k] < x[k + 1]

\* is_decreasing: strictly decreasing.
is_decreasing(x) == \A k \in DOMAIN x : (k + 1) \in DOMAIN x => x[k] > x[k + 1]

\* is_unique: no value occurs twice.
is_unique(x) == \A a, b \in DOMAIN x : a # b => x[a] # x[b]

\* The indices at which x occurs in the array.
Occurrences(arr, x) == { k \in DOMAIN arr : arr[k] = x }

\* chk_contains: the index of x in the array when it occurs exactly once.
chk_contains(arr, x) == CHOOSE k \in DOMAIN arr : arr[k] = x

\* is_size for a Matrix and for a Tensor4.
is_size2(m, r, c) == m.nrows = r /\ m.ncols = c

is_size4(t, a, b, c, d) ==
  t.nbooks = a /\ t.npages = b /\ t.nrows = c /\ t.ncols = d

\* ------------------------------------------ find_new_grid_in_old_grid
\* The frequency difference that is tolerated.
tolerance == 1

\* old_grid[j] as the build reads it: inside the grid its element, outside
\* the grid whatever lies at that address (the value g).
ReadGrid(old_grid, j, g) == IF j \in DOMAIN old_grid THEN old_grid[j] ELSE g

\* The loop over the new frequencies, from new grid index i with the old
\* grid position at j and the positions found so far in pos.  reads collects
\* every old grid index that is read.
RECURSIVE GridScan(_, _, _, _, _, _, _)
GridScan(old_grid, new_grid, g, i, j, pos, reads) ==
  IF i >= nelem(new_grid)
  THEN [found |-> TRUE, pos |-> pos, j |-> j, reads |-> reads]
  ELSE IF Abs(new_grid[i] - ReadGrid(old_grid, j, g)) > tolerance
       THEN IF j + 1 >= nelem(old_grid)
            THEN [found |-> FALSE, pos |-> pos, j |-> j + 1,
                  reads |-> reads \cup {j}]
            ELSE GridScan(old_grid, new_grid, g, i, j + 1, pos,
                          reads \cup {j})
       ELSE GridScan(old_grid, new_grid, g, i + 1, j, PushBack(pos, j),
                     reads \cup {j})

find_new_grid_in_old_grid(old_grid, new_grid, g) ==
  GridScan(old_grid, new_grid, g, 0, 0, Empty, {})

\* The call reads old_grid[0] although the old grid is empty.
ReadsOutsideGrid(old_grid, new_grid) ==
  nelem(old_grid) = 0 /\ nelem(new_grid) > 0

\* ------------------------------------------------------------ the table
\* Species tag groups that occur in tables and requests.
SpeciesTags == {"H2O", "O2"}

\* log, on the pressures that occur: 100 * ln(x), rounded, for x in 1..16.
LogTable ==
  <<0, 69, 110, 139, 161, 179, 195, 208, 220, 230, 240, 248, 256, 264, 271,
    277>>

\* A pressure of 0 stands for the smallest positive Numeric (see
\* ThisBeforeReplace), whose log is about -744.4.
Log(x) == IF x = 0 THEN -74440 ELSE LogTable[x]

\* The index pairs of a Matrix of r rows and c columns, and the index
\* quadruples of a Tensor4 of shape (a, b, c, d).
Index2(r, c) == (0..r - 1) \X (0..c - 1)

Index4(a, b, c, d) == (0..a - 1) \X (0..b - 1) \X (0..c - 1) \X (0..d - 1)

\* A Matrix of r rows and c columns, and a Tensor4 of shape (a, b, c, d),
\* with the elements data.
MatrixOf(r, c, data) == [nrows |-> r, ncols |-> c, data |-> data]

Tensor4Of(a, b, c, d, data) ==
  [nbooks |-> a, npages |-> b, nrows |-> c, ncols |-> d, data |-> data]

\* A GasAbsLookup as its constructor leaves it: every member empty.
EmptyLookup ==
  [species |-> Empty, nonlinear_species |-> Empty, f_grid |-> Empty,
   p_grid |-> Empty, log_p_grid |-> Empty,
   vmrs_ref |-> MatrixOf(0, 0, Empty),
   t_ref |-> Empty, t_pert |-> Empty, nls_pert |-> Empty,
   xsec |-> Tensor4Of(0, 0, 0, 0, Empty)]

\* The contents of the tables the model starts from.  Every coefficient and
\* every reference VMR is distinct and names its own place in the table, so
\* that a copy from a wrong place shows.
XsecValue(t, s, f, p) == 1000 * (t + 1) + 100 * s + 10 * f + p

VmrValue(s, p) == 10 * (s + 1) + p

\* A Matrix and a Tensor4 of the given shape with these contents.
VmrsRefOf(r, c) ==
  MatrixOf(r, c, [x \in Index2(r, c) |-> VmrValue(x[1], x[2])])

XsecOf(a, b, c, d) ==
  Tensor4Of(a, b, c, d,
            [x \in Index4(a, b, c, d) |-> XsecValue(x[1], x[2], x[3], x[4])])

PGridOf(n) == [k \in 0..n - 1 |-> 2 ^ (n - k)]

TRefOf(n) == [k \in 0..n - 1 |-> 300 - 10 * k]

TPertOf(n) == [k \in 0..n - 1 |-> 20 * k - 10 * (n - 1)]

NlsPertOf(n) == [k \in 0..n - 1 |-> 2 ^ k]

\* The table with the given species, nonlinear species and frequency grid,
\* np pressures, nt temperature perturbations and nh humidity perturbations,
\* never adapted (log_p_grid empty), whose xsec has a books.
TableOf(sp, nls, fg, np, nt, nh, a) ==
  [species |-> sp, nonlinear_species |-> nls, f_grid |-> fg,
   p_grid |-> PGridOf(np), log_p_grid |-> Empty,
   vmrs_ref |-> VmrsRefOf(nelem(sp), np),
   t_ref |-> TRefOf(np), t_pert |-> TPertOf(nt), nls_pert |-> NlsPertOf(nh),
   xsec |-> XsecOf(a, nelem(sp) + nelem(nls) * (nh - 1), nelem(fg), np)]

\* --------------------------------------------------- GasAbsLookup::Adapt
\* The logical array non_linear.  An entry of nonlinear_species that is no
\* index of the array is written outside it and flags no species.
NonLinearFlags(t) ==
  [i \in 0..nelem(t.species) - 1 |->
     IF \E s \in DOMAIN t.nonlinear_species : t.nonlinear_species[s] = i
     THEN 1 ELSE 0]

\* The write non_linear[nonlinear_species[s]] = 1 lands outside the array.
WritesOutsideNonLinear(t) ==
  \E s \in DOMAIN t.nonlinear_species :
     t.nonlinear_species[s] \notin 0..nelem(t.species) - 1

\* The size check of xsec, in the three cases the source distinguishes.
XsecSizeOk(t) ==
  LET n_species  == nelem(t.species)
      n_nls      == nelem(t.nonlinear_species)
      n_nls_pert == nelem(t.nls_pert)
      n_f_grid   == nelem(t.f_grid)
      n_p_grid   == nelem(t.p_grid)
  IN  IF 0 = n_nls
      THEN IF 0 = nelem(t.t_pert)
           THEN is_size4(t.xsec, 1, n_species, n_f_grid, n_p_grid)
           ELSE is_size4(t.xsec, nelem(t.t_pert), n_species, n_f_grid,
                         n_p_grid)
      ELSE is_size4(t.xsec, nelem(t.t_pert),
                    n_species + n_nls * (n_nls_pert - 1), n_f_grid, n_p_grid)

\* The checks on the lookup table itself, in the order of the source: the
\* first one that fails, or "none".
TableCheckError(t) ==
  LET n_species  == nelem(t.species)
      n_nls      == nelem(t.nonlinear_species)
      n_nls_pert == nelem(t.nls_pert)
      n_p_grid   == nelem(t.p_grid)
  IN  IF 0 = n_species THEN "NoSpecies"
      ELSE IF ~is_unique(t.nonlinear_species) THEN "NonlinearNotUnique"
      ELSE IF \E i \in DOMAIN t.nonlinear_species :
                 t.nonlinear_species[i] \notin 0..n_species - 1
           THEN "NonlinearOutOfRange"
      ELSE IF ~is_increasing(t.f_grid) THEN "FGridNotIncreasing"
      ELSE IF ~is_decreasing(t.p_grid) THEN "PGridNotDecreasing"
      ELSE IF t.vmrs_ref.nrows # n_species THEN "VmrsRefRows"
      ELSE IF t.vmrs_ref.ncols # n_p_grid THEN "VmrsRefCols"
      ELSE IF nelem(t.t_ref) # n_p_grid THEN "TRefLength"
      ELSE IF 0 = n_nls /\ n_nls_pert # 0 THEN "NlsPertLength"
      ELSE IF 0 # n_nls /\ 0 = n_nls_pert THEN "NlsPertEmpty"
      ELSE IF ~XsecSizeOk(t) THEN "ShapeMismatch"
      ELSE "none"

\* The checks on the input data, up to and including the search of every
\* current species in the table.
RequestCheckError(t, current_species, current_f_grid) ==
  IF 0 = nelem(current_species) THEN "NoCurrentSpecies"
  ELSE IF ~is_increasing(current_f_grid) THEN "CurrentFGridNotIncreasing"
  ELSE IF \E i \in DOMAIN current_species :
             /\ Occurrences(t.species, current_species[i]) = {}
             /\ \A k \in 0..i - 1 :
                   Cardinality(Occurrences(t.species, current_species[k])) = 1
       THEN "SpeciesNotFound"
  ELSE IF \E i \in DOMAIN current_species :
             Cardinality(Occurrences(t.species, current_species[i])) # 1
       THEN "SpeciesNotUnique"
  ELSE "none"

\* i_current_species: where each current species is in the table.
CurrentSpeciesIndex(t, current_species) ==
  [i \in DOMAIN current_species |-> chk_contains(t.species, current_species[i])]

\* current_non_linear: which of the current species are nonlinear.
CurrentNonLinear(t, i_current_species) ==
  [i \in DOMAIN i_current_species |-> NonLinearFlags(t)[i_current_species[i]]]

\* The number of xsec pages a species takes: n_nls_pert if it is nonlinear,
\* otherwise 1.
PagesOf(flag, n_nls_pert) == IF flag # 0 THEN n_nls_pert ELSE 1

\* The running page offset sp before species i, for the flags given.
RECURSIVE PageOffset(_, _, _)
PageOffset(flags, n_nls_pert, i) ==
  IF i = 0 THEN 0
  ELSE PageOffset(flags, n_nls_pert, i - 1)
         + PagesOf(flags[i - 1], n_nls_pert)

\* original_spec_pos_in_xsec.
OriginalSpecPosInXsec(t) ==
  [i \in 0..nelem(t.species) - 1 |->
     PageOffset(NonLinearFlags(t), nelem(t.nls_pert), i)]

\* What a read of xsec outside its bounds yields: no coefficient of any table.
XsecOutside == -1

\* xsec(t, s, f, p) as the build reads it.
ReadXsec(x, t, s, f, p) ==
  IF <<t, s, f, p>> \in DOMAIN x.data THEN x.data[<<t, s, f, p>>]
  ELSE XsecOutside

\* The current species whose pages hold page b of the new xsec.
SpeciesOfPage(flags, n_nls_pert, b) ==
  CHOOSE i \in DOMAIN flags :
    /\ PageOffset(flags, n_nls_pert, i) <= b
    /\ b < PageOffset(flags, n_nls_pert, i) + PagesOf(flags[i], n_nls_pert)

\* Step 3 of Adapt, member by member.  i_current_species and
\* i_current_f_grid are the species and frequency index lists.

\* Mutant: the species are taken at the request's positions (the last
\* position of the table for those beyond it), not at the positions found
\* in the table.
NewSpecies_Unmapped(t, i_current_species) ==
  [i \in DOMAIN i_current_species |->
     t.species[IF i \in DOMAIN t.species THEN i ELSE nelem(t.species) - 1]]

\* new_table.species.
NewSpecies(t, i_current_species) ==
  [i \in DOMAIN i_current_species |-> t.species[i_current_species[i]]]

\* new_table.nonlinear_species left empty.
NewNonlinearSpecies_None(current_non_linear) == Empty

\* new_table.nonlinear_species: i is pushed for every nonlinear current
\* species, in the order of the current species.
NewNonlinearSpecies(current_non_linear) ==
  SortedOf({i \in DOMAIN current_non_linear : current_non_linear[i] # 0})

\* new_table.f_grid.  g is what a read of f_grid outside its bounds yields.
NewFGrid(t, i_current_f_grid, g) ==
  [i \in DOMAIN i_current_f_grid |-> ReadGrid(t.f_grid, i_current_f_grid[i], g)]

\* Mutant: the first rows of vmrs_ref are kept, whichever species are
\* requested.
NewVmrsRef_FirstRows(t, i_current_species) ==
  LET r == nelem(i_current_species)
      c == nelem(t.p_grid)
  IN  MatrixOf(r, c,
               [x \in Index2(r, c) |->
                  t.vmrs_ref.data[<<IF x[1] < t.vmrs_ref.nrows THEN x[1]
                                     ELSE 0, x[2]>>]])

\* new_table.vmrs_ref.
NewVmrsRef(t, i_current_species) ==
  LET r == nelem(i_current_species)
      c == nelem(t.p_grid)
  IN  MatrixOf(r, c,
               [x \in Index2(r, c) |->
                  t.vmrs_ref.data[<<i_current_species[x[1]], x[2]>>]])

\* Mutant: nls_pert copied whether or not a nonlinear species is left.
NewNlsPert_Always(t, new_nonlinear_species) == t.nls_pert

\* new_table.nls_pert: stays empty if there is no nonlinear species.
NewNlsPert(t, new_nonlinear_species) ==
  IF 0 # nelem(new_nonlinear_species) THEN t.nls_pert ELSE Empty

\* new_table.xsec: resized, then filled species by species and frequency by
\* frequency from the pages and rows of the old xsec.
NewXsec(t, i_current_species, i_current_f_grid) ==
  LET n_nls_pert         == nelem(t.nls_pert)
      current_non_linear == CurrentNonLinear(t, i_current_species)
      n_current_nonlinear_species ==
        Cardinality({i \in DOMAIN current_non_linear :
                       current_non_linear[i] # 0})
      orig == OriginalSpecPosInXsec(t)
      XsecCopy(tt, b, f, p) ==
        LET i_s == SpeciesOfPage(current_non_linear, n_nls_pert, b)
            v   == b - PageOffset(current_non_linear, n_nls_pert, i_s)
        IN  ReadXsec(t.xsec, tt, orig[i_current_species[i_s]] + v,
                     i_current_f_grid[f], p)
      a == t.xsec.nbooks
      b == nelem(i_current_species)
             + n_current_nonlinear_species * (n_nls_pert - 1)
      c == nelem(i_current_f_grid)
      d == t.xsec.ncols
  IN  Tensor4Of(a, b, c, d,
                [x \in Index4(a, b, c, d) |->
                   XsecCopy(x[1], x[2], x[3], x[4])])

\* The new lookup table; its log_p_grid is as the constructor left it.
NewTable(t, i_current_species, i_current_f_grid, g) ==
  LET new_nonlinear_species ==
        NewNonlinearSpecies(CurrentNonLinear(t, i_current_species))
  IN  [species |-> NewSpecies(t, i_current_species),
       nonlinear_species |-> new_nonlinear_species,
       f_grid |-> NewFGrid(t, i_current_f_grid, g),
       p_grid |-> t.p_grid,
       log_p_grid |-> Empty,
       vmrs_ref |-> NewVmrsRef(t, i_current_species),
       t_ref |-> t.t_ref,
       t_pert |-> t.t_pert,
       nls_pert |-> NewNlsPert(t, new_nonlinear_species),
       xsec |-> NewXsec(t, i_current_species, i_current_f_grid)]

\* Mutant: the loop of step 5 stops one element early.
InitLogPGrid_Short(t, n_p_grid) ==
  [t EXCEPT !.log_p_grid = [k \in 0..n_p_grid - 2 |-> Log(t.p_grid[k])]]

\* Mutant: step 5 left out.
InitLogPGrid_Skipped(t, n_p_grid) == t

\* Step 5 of Adapt: log_p_grid of n_p_grid elements, the log of p_grid.
InitLogPGrid(t, n_p_grid) ==
  [t EXCEPT !.log_p_grid = [k \in 0..n_p_grid - 1 |-> Log(t.p_grid[k])]]

\* The object while Adapt is at work on its local variables, up to the end
\* of step 3.  No statement assigns to a member.  The write
\* non_linear[nonlinear_species[s]] = 1 that misses the array is a write to
\* memory next to it: it leaves the object as it was, or it puts the Index 1
\* into an element of nonlinear_species, or its bits, which as a Numeric are
\* 0 to the precision here, into an element of f_grid or p_grid.
ThisBeforeReplace(t) ==
  IF WritesOutsideNonLinear(t)
  THEN {t}
       \cup { [t EXCEPT !.nonlinear_species[k] = 1] :
                k \in DOMAIN t.nonlinear_species }
       \cup { [t EXCEPT !.f_grid[k] = 0] : k \in DOMAIN t.f_grid }
       \cup { [t EXCEPT !.p_grid[k] = 0] : k \in DOMAIN t.p_grid }
  ELSE {t}

\* ------------------------------------------------- GasAbsLookup::Extract
\* The callers of Extract.
Callers == 1..MaxCallers

\* A caller that has not called Extract: no arguments, and an output matrix
\* sga that nothing has been written to.
NoCall ==
  [pc |-> "idle", error |-> "none",
   p_interp_order |-> 0, t_interp_order |-> 0, h2o_interp_order |-> 0,
   f_index |-> 0, p |-> 0, T |-> 0, abs_vmrs |-> Empty,
   pgp |-> Empty, pi |-> 0, xsec_pre_interpolated |-> Empty,
   sga |-> MatrixOf(0, 0, Empty)]

NoExtract == [c \in Callers |-> NoCall]

\* find_first_species_tg: the first species of the table with the tag, or -1.
find_first_species_tg(species, tag) ==
  IF Occurrences(species, tag) = {} THEN -1
  ELSE CHOOSE k \in Occurrences(species, tag) :
         \A m \in Occurrences(species, tag) : k <= m

\* Mutant: h2o_index is found only if one species alone is H2O.
H2OIndex_OnlyOne(t) ==
  IF nelem(t.nonlinear_species) > 0
       /\ Cardinality(Occurrences(t.species, "H2O")) = 1
  THEN find_first_species_tg(t.species, "H2O") ELSE -1

\* h2o_index: looked for only if there are nonlinear species.
H2OIndex(t) ==
  IF nelem(t.nonlinear_species) > 0
  THEN find_first_species_tg(t.species, "H2O") ELSE -1

\* The three assertions on the dimensions of vmrs_ref, t_ref and xsec.
ExtractAssertsHold(t) ==
  /\ is_size2(t.vmrs_ref, nelem(t.species), nelem(t.p_grid))
  /\ nelem(t.t_ref) = nelem(t.p_grid)
  /\ is_size4(t.xsec,
              IF 0 = nelem(t.t_pert) THEN 1 ELSE nelem(t.t_pert),
              nelem(t.species)
                + nelem(t.nonlinear_species) * (nelem(t.nls_pert) - 1),
              nelem(t.f_grid), nelem(t.p_grid))

\* grid[k] as the build reads it: inside the grid its element; outside it
\* what lies before the grid (g[1]) or behind it (g[2]).
ReadVector(grid, k, g) ==
  IF k \in DOMAIN grid THEN grid[k] ELSE IF k < 0 THEN g[1] ELSE g[2]

\* Twice the bound half a grid spacing before the first grid point, and
\* twice the bound half a grid spacing behind the last one:
\* grid[0] - 0.5*(grid[1]-grid[0]) and
\* grid[n-1] + 0.5*(grid[n-1]-grid[n-2]).
FirstBound2(grid, g) == 3 * ReadVector(grid, 0, g) - ReadVector(grid, 1, g)

LastBound2(grid, g) ==
  3 * ReadVector(grid, nelem(grid) - 1, g)
    - ReadVector(grid, nelem(grid) - 2, g)

\* The bounds of a grid of one point are computed from elements that the
\* grid does not have.
BoundsReadOutside(grid) == nelem(grid) = 1

\* The check that p is inside the grid; p_grid is sorted in decreasing
\* order, so that the first bound is p_max and the last one p_min.
PressureOutside(t, p, g) ==
  2 * p > FirstBound2(t.p_grid, g) \/ 2 * p < LastBound2(t.p_grid, g)

\* gridpos: for the point num/den (den > 0), the index j of the grid
\* interval grid[j]..grid[j+1] that holds it, in an increasing or a
\* decreasing grid of at least two points; a point off the grid belongs to
\* the first or the last interval.
GridPosBracket(grid, num, den) ==
  LET n == nelem(grid)
      S == IF grid[0] < grid[n - 1]
           THEN { j \in 0..n - 2 : grid[j] * den <= num }
           ELSE { j \in 0..n - 2 : grid[j] * den >= num }
  IN  IF S = {} THEN 0 ELSE CHOOSE j \in S : \A m \in S : m <= j

\* gridpos_poly: the indices idx[0..order] of the order+1 neighbouring grid
\* points used to interpolate to num/den.  Order 0 takes the nearer end of
\* the interval; a higher order centres the points on the interval as far
\* as the grid allows.
gridpos_poly(grid, num, den, order) ==
  LET n == nelem(grid)
      j == GridPosBracket(grid, num, den)
      k == IF n = 1 THEN 0
           ELSE IF order = 0
           THEN IF 2 * Abs(num - grid[j] * den)
                     > Abs(grid[j + 1] - grid[j]) * den
                THEN j + 1 ELSE j
           ELSE Max(0, IF j - (order - 1) \div 2 < n - order - 1
                       THEN j - (order - 1) \div 2 ELSE n - order - 1)
  IN  [i \in 0..order |-> k + i]

\* Mutant: an empty perturbation grid counts as a grid of too few points.
TooFewGridPoints_EmptyCounts(t, a) ==
  \/ nelem(t.p_grid) < a.p_interp_order + 1
  \/ nelem(t.nls_pert) < a.h2o_interp_order + 1
  \/ nelem(t.t_pert) < a.t_interp_order + 1

\* The checks of the numbers of grid points against the interpolation
\* orders.
TooFewGridPoints(t, a) ==
  \/ nelem(t.p_grid) < a.p_interp_order + 1
  \/ nelem(t.nls_pert) # 0 /\ nelem(t.nls_pert) < a.h2o_interp_order + 1
  \/ nelem(t.t_pert) # 0 /\ nelem(t.t_pert) < a.t_interp_order + 1

\* Extract from its call to the end of step 5, on table t with the
\* arguments of call a: the error that one of the checks throws, the stop
\* at a failed assertion, or the pressure grid positions pgp.  assert_on
\* says whether the build has assertions; g is what lies outside p_grid.
ExtractChecked(t, a, assert_on, g) ==
  LET n_p_grid == nelem(t.p_grid)
  IN  IF nelem(t.nonlinear_species) > 0 /\ H2OIndex(t) = -1
      THEN [kind |-> "throw", error |-> "NoHumidityReferenceSpecies"]
      ELSE IF ~ExtractAssertsHold(t) /\ assert_on THEN [kind |-> "abort"]
      ELSE IF nelem(t.log_p_grid) # n_p_grid
      THEN [kind |-> "throw", error |-> "TableNotAdapted"]
      ELSE IF TooFewGridPoints(t, a)
      THEN [kind |-> "throw", error |-> "InsufficientGridForOrder"]
      ELSE IF nelem(a.abs_vmrs) # nelem(t.species)
      THEN [kind |-> "throw", error |-> "DimensionMismatch"]
      ELSE IF a.f_index >= nelem(t.f_grid)
      THEN [kind |-> "throw", error |-> "IndexOutOfRange"]
      ELSE IF WritesOutsideNonLinear(t) /\ assert_on THEN [kind |-> "abort"]
      ELSE IF BoundsReadOutside(t.p_grid) /\ assert_on
      THEN [kind |-> "abort"]
      ELSE IF PressureOutside(t, a.p, g)
      THEN [kind |-> "throw", error |-> "PressureOutOfRange"]
      ELSE [kind |-> "go",
            pgp |-> gridpos_poly(t.log_p_grid, Log(a.p), 1,
                                 a.p_interp_order)]

\* Mutant: the range of frequencies always starts at the first one.
FStart_First(a) == 0

\* f_start and f_extent: all frequencies for a negative f_index, else one.
FStart(a) == IF a.f_index < 0 THEN 0 ELSE a.f_index

FExtent(t, a) == IF a.f_index < 0 THEN nelem(t.f_grid) ELSE 1

\* Mutant: fpi grows by 1 after every species.
ExtractFpi_ByOne(non_linear, n_nls_pert, si) == si

\* fpi, the position in xsec of the first profile of species si: it starts
\* at 0 and grows by n_nls_pert after a nonlinear species, by 1 after
\* another one.
RECURSIVE ExtractFpi(_, _, _)
ExtractFpi(non_linear, n_nls_pert, si) ==
  IF si = 0 THEN 0
  ELSE ExtractFpi(non_linear, n_nls_pert, si - 1)
         + (IF non_linear[si - 1] # 0 THEN n_nls_pert ELSE 1)

\* The check of the temperature offset at the pressure level idx.
TemperatureOutside(t, a, idx, g) ==
  LET T_offset == a.T - t.t_ref[idx]
  IN  \/ 2 * T_offset > LastBound2(t.t_pert, g)
      \/ 2 * T_offset < FirstBound2(t.t_pert, g)

\* The check of the fractional VMR of H2O at the pressure level idx:
\* VMR_frac = abs_vmrs[h2o_index] / vmrs_ref(h2o_index, idx), compared
\* without the division (every reference VMR here is positive).
HumidityOutside(t, a, idx, g) ==
  LET vmr == a.abs_vmrs[H2OIndex(t)]
      effective_vmr_ref == t.vmrs_ref.data[<<H2OIndex(t), idx>>]
  IN  \/ 2 * vmr > LastBound2(t.nls_pert, g) * effective_vmr_ref
      \/ 2 * vmr < FirstBound2(t.nls_pert, g) * effective_vmr_ref

\* The elements of xsec that make up res[f] for species si at the pressure
\* level idx, in the four cases of step 8.  An element is named with the
\* positions r and c of its interpolation weight in tgp and vgp (-1 where
\* there is no such interpolation).
SpeciesTerms(t, a, idx, tgp, vgp, si, f) ==
  LET non_linear == NonLinearFlags(t)
      fpi == ExtractFpi(non_linear, nelem(t.nls_pert), si)
      do_T == nelem(t.t_pert) # 0
      do_VMR == non_linear[si] # 0
      ff == FStart(a) + f
  IN  IF do_T /\ do_VMR
      THEN { <<r, c, ReadXsec(t.xsec, tgp[r], fpi + vgp[c], ff, idx)>> :
               r \in DOMAIN tgp, c \in DOMAIN vgp }
      ELSE IF do_T
      THEN { <<r, -1, ReadXsec(t.xsec, tgp[r], fpi, ff, idx)>> :
               r \in DOMAIN tgp }
      ELSE IF do_VMR
      THEN { <<-1, c, ReadXsec(t.xsec, 0, fpi + vgp[c], ff, idx)>> :
               c \in DOMAIN vgp }
      ELSE { <<-1, -1, ReadXsec(t.xsec, 0, fpi, ff, idx)>> }

\* Steps 6 to 8 for one pressure level idx: the error that a range check
\* throws, the stop at a failed assertion, or the slice res of
\* xsec_pre_interpolated for this level.
ExtractLevel(t, a, idx, assert_on, g) ==
  LET n_species == nelem(t.species)
      do_T == nelem(t.t_pert) # 0
      do_H == nelem(t.nonlinear_species) > 0
      tgp == IF do_T
             THEN gridpos_poly(t.t_pert, a.T - t.t_ref[idx], 1,
                               a.t_interp_order)
             ELSE Empty
      vgp == IF do_H
             THEN gridpos_poly(t.nls_pert, a.abs_vmrs[H2OIndex(t)],
                               t.vmrs_ref.data[<<H2OIndex(t), idx>>],
                               a.h2o_interp_order)
             ELSE Empty
  IN  IF do_T /\ BoundsReadOutside(t.t_pert) /\ assert_on
      THEN [kind |-> "abort"]
      ELSE IF do_T /\ TemperatureOutside(t, a, idx, g)
      THEN [kind |-> "throw", error |-> "TemperatureOutOfRange"]
      ELSE IF do_H /\ BoundsReadOutside(t.nls_pert) /\ assert_on
      THEN [kind |-> "abort"]
      ELSE IF do_H /\ HumidityOutside(t, a, idx, g)
      THEN [kind |-> "throw", error |-> "HumidityOutOfRange"]
      ELSE IF /\ assert_on
              /\ ExtractFpi(NonLinearFlags(t), nelem(t.nls_pert), n_species)
                   # t.xsec.npages
      THEN [kind |-> "abort"]
      ELSE [kind |-> "go",
            res |-> [x \in Index2(FExtent(t, a), n_species) |->
                       SpeciesTerms(t, a, idx, tgp, vgp, x[2], x[1])]]

\* Mutant: every column is scaled by the VMR of the first species.
ExtractSga_FirstVmr(t, a, xsec_pre_interpolated) ==
  MatrixOf(FExtent(t, a), nelem(t.species),
           [x \in Index2(FExtent(t, a), nelem(t.species)) |->
              [terms |-> UNION { { <<pi, e[1], e[2], e[3]>> :
                                    e \in xsec_pre_interpolated[pi][x] } :
                                 pi \in DOMAIN xsec_pre_interpolated },
               n |-> <<a.p, a.T>>,
               vmr |-> a.abs_vmrs[0]]])

\* The end of Extract: sga is resized to [f_extent, n_species]; element
\* (f, si) is the sum over the pressure levels pi of the pre-interpolated
\* values times pitw[pi], scaled by the number density n of (p, T) and by
\* abs_vmrs[si].  A value is represented by the elements of xsec that enter
\* it, each with the positions of its weights, and by the arguments of the
\* scaling.
ExtractSga(t, a, xsec_pre_interpolated) ==
  MatrixOf(FExtent(t, a), nelem(t.species),
           [x \in Index2(FExtent(t, a), nelem(t.species)) |->
              [terms |-> UNION { { <<pi, e[1], e[2], e[3]>> :
                                    e \in xsec_pre_interpolated[pi][x] } :
                                 pi \in DOMAIN xsec_pre_interpolated },
               n |-> <<a.p, a.T>>,
               vmr |-> a.abs_vmrs[x[2]]]])

\* Mutant: sga is resized and set to 0 inside the loop over the pressure
\* levels.
SgaInLoop_Resized(call) == MatrixOf(1, 1, [x \in Index2(1, 1) |-> 0])

\* sga after a pass of the loop over the pressure levels: the loop writes
\* xsec_pre_interpolated, sga is as the caller handed it over.
SgaInLoop(call) == call.sga

\* Mutant: Extract brings log_p_grid up to date before it uses it.
TableDuringExtract_FillsLog(t) == {InitLogPGrid(t, nelem(t.p_grid))}

\* The table while Extract runs: Extract is const and assigns to no member.
\* Its write non_linear[nonlinear_species[s]] = 1 is the one of Adapt.
TableDuringExtract(t) == ThisBeforeReplace(t)

\* ------------------------------------------------------------ the state
VARIABLES
  this,               \* the GasAbsLookup object Adapt is called on
  current_species,    \* the species of the current calculation
  current_f_grid,     \* the frequencies of the current calculation
  pc,                 \* where the call in progress is
  outcomes,           \* how each call so far ended: "ok" or the error thrown
  before,             \* the object as it was when the last call began
  new_table,          \* the local new_table, as the last call built it
  i_current_species,  \* the species index list of the last call
  i_current_f_grid,   \* the frequency index list of the last call
  extract             \* the calls of Extract: per caller, its arguments,
                      \* its position, its local variables and its sga

vars ==
  <<this, current_species, current_f_grid, pc, outcomes, before, new_table,
    i_current_species, i_current_f_grid, extract>>

\* What lies outside an empty frequency grid: any frequency of the model, or
\* a value far from all of them.
OutsideValues(vals) == vals \cup {-2}

\* Lines 120-463 of Adapt, on table t: what the call does up to the point
\* where it has built new_table.  assert_on says whether the build checks
\* array indices (assertions compiled in); g is what lies outside f_grid.
AdaptBuilt(t, cs, cf, assert_on, g) ==
  IF WritesOutsideNonLinear(t) /\ assert_on THEN [kind |-> "abort"]
  ELSE IF TableCheckError(t) # "none"
       THEN [kind |-> "throw", error |-> TableCheckError(t)]
  ELSE IF RequestCheckError(t, cs, cf) # "none"
       THEN [kind |-> "throw", error |-> RequestCheckError(t, cs, cf)]
  ELSE IF ReadsOutsideGrid(t.f_grid, cf) /\ assert_on THEN [kind |-> "abort"]
  ELSE LET found == find_new_grid_in_old_grid(t.f_grid, cf, g)
           ics   == CurrentSpeciesIndex(t, cs)
       IN  IF ~found.found
           THEN [kind |-> "throw", error |-> "GridPointNotFound"]
           ELSE [kind |-> "built", i_current_species |-> ics,
                 i_current_f_grid |-> found.pos,
                 new_table |-> NewTable(t, ics, found.pos, g)]

\* The builds and outside values that differ in effect on this call.
AssertChoices(t, cf) ==
  IF WritesOutsideNonLinear(t) \/ ReadsOutsideGrid(t.f_grid, cf)
  THEN BOOLEAN ELSE {FALSE}

OutsideChoices(t, cf) ==
  IF ReadsOutsideGrid(t.f_grid, cf) THEN OutsideValues(0..MaxFreq) ELSE {0}

\* Adapt, from its call to the end of step 3: it throws, or is stopped by a
\* failed index assertion, or holds the new table in new_table.
AdaptBegin ==
  /\ pc = "idle"
  /\ Len(outcomes) < MaxCalls
  /\ \E assert_on \in AssertChoices(this, current_f_grid),
        g \in OutsideChoices(this, current_f_grid) :
       LET r == AdaptBuilt(this, current_species, current_f_grid,
                           assert_on, g)
       IN  /\ before' = this
           /\ IF r.kind = "abort" THEN this' = this
              ELSE this' \in ThisBeforeReplace(this)
           /\ CASE r.kind = "abort" ->
                     /\ pc' = "aborted"
                     /\ UNCHANGED <<outcomes, new_table, i_current_species,
                                    i_current_f_grid>>
                [] r.kind = "throw" ->
                     /\ pc' = "idle"
                     /\ outcomes' = Append(outcomes, r.error)
                     /\ UNCHANGED <<new_table, i_current_species,
                                    i_current_f_grid>>
                [] r.kind = "built" ->
                     /\ pc' = "replace"
                     /\ new_table' = r.new_table
                     /\ i_current_species' = r.i_current_species
                     /\ i_current_f_grid' = r.i_current_f_grid
                     /\ UNCHANGED outcomes
  /\ UNCHANGED <<current_species, current_f_grid, extract>>

\* Step 4: *this = new_table.
AdaptReplace ==
  /\ pc = "replace"
  /\ this' = new_table
  /\ pc' = "init_log"
  /\ UNCHANGED <<current_species, current_f_grid, outcomes, before, new_table,
                 i_current_species, i_current_f_grid, extract>>

\* Step 5: log_p_grid is resized to the n_p_grid of the call's start and
\* filled with the log of p_grid; the call returns.
AdaptInitLog ==
  /\ pc = "init_log"
  /\ this' = InitLogPGrid(this, nelem(before.p_grid))
  /\ pc' = "idle"
  /\ outcomes' = Append(outcomes, "ok")
  /\ UNCHANGED <<current_species, current_f_grid, before, new_table,
                 i_current_species, i_current_f_grid, extract>>

\* ----------------------------------------------------- the initial states
\* Adapt treats the species, the frequencies and the remaining axes of a
\* table in separate loops.  The initial states vary one of the three over
\* all of its cases, and the other two over a few.

\* All 0-based arrays of at most maxlen elements of S.
ArraysOf(S, maxlen) == UNION { [0..n - 1 -> S] : n \in 0..maxlen }

\* The nonlinear species lists of a table of n species that are unique and
\* in range, in every order.
NonlinearLists(n) == { l \in ArraysOf(0..n - 1, n) : is_unique(l) }

\* The numbers of humidity perturbations tried with the nonlinear species nls.
HPertChoices(nls) == IF nelem(nls) = 0 THEN {0} ELSE 1..MaxHPert

\* Species of the table (species, nonlinear species, number of humidity
\* perturbations) and of the request.
AllSpeciesCases ==
  UNION { { [sp |-> sp, nls |-> nls, nh |-> nh, cs |-> cs] :
              nls \in NonlinearLists(nelem(sp)),
              cs \in ArraysOf(SpeciesTags, MaxSpecies) } :
          sp \in ArraysOf(SpeciesTags, MaxSpecies), nh \in 0..MaxHPert }

WideSpeciesCases == { c \in AllSpeciesCases : c.nh \in HPertChoices(c.nls) }

\* A table of H2O and the nonlinear species O2; the request keeps both, in
\* either order, or keeps H2O alone.
FewSpeciesCases ==
  LET sp == [k \in 0..1 |-> IF k = 0 THEN "H2O" ELSE "O2"]
  IN  { [sp |-> sp, nls |-> [k \in 0..0 |-> 1], nh |-> MaxHPert, cs |-> cs] :
          cs \in { sp, Reverse(sp), [k \in 0..0 |-> "H2O"] } }

\* Frequencies of the table and of the request: every increasing grid, and
\* for the request one grid that is not increasing.
WideFreqCases ==
  { [fg |-> fg, cf |-> cf] :
      fg \in IncreasingVectors(0..MaxFreq, MaxFreq),
      cf \in IncreasingVectors(0..MaxFreq, MaxFreq) \cup {[k \in 0..1 |-> 1]} }

\* A table grid of MaxFreq points two units apart; the request is this grid,
\* or its last point.
FewFreqCases ==
  LET fg == [k \in 0..MaxFreq - 1 |-> 2 * k]
  IN  { [fg |-> fg, cf |-> cf] :
          cf \in { fg, [k \in 0..0 |-> 2 * (MaxFreq - 1)] } }

\* The remaining axes: number of pressures, of temperature perturbations,
\* and of books of xsec, which is the documented max(nt, 1) or nt itself.
WideShapeCases ==
  { c \in [np : 0..MaxPress, nt : 0..MaxTPert, a : 0..Max(MaxTPert, 1)] :
      c.a \in {Max(c.nt, 1), c.nt} }

FewShapeCases ==
  { [np |-> MaxPress, nt |-> MaxTPert, a |-> Max(MaxTPert, 1)] }

Cases ==
  (WideSpeciesCases \X FewFreqCases \X FewShapeCases)
    \cup (FewSpeciesCases \X WideFreqCases \X FewShapeCases)
    \cup (FewSpeciesCases \X FewFreqCases \X WideShapeCases)

CaseTable(c) ==
  TableOf(c[1].sp, c[1].nls, c[2].fg, c[3].np, c[3].nt, c[1].nh, c[3].a)

\* One member of a table changed so that it no longer fits the others.
Defects(t) ==
  { [t EXCEPT !.nonlinear_species = [k \in 0..1 |-> 0]],
    [t EXCEPT !.nonlinear_species = [k \in 0..0 |-> nelem(t.species)]],
    [t EXCEPT !.f_grid = Reverse(t.f_grid)],
    [t EXCEPT !.p_grid = Reverse(t.p_grid)],
    [t EXCEPT !.vmrs_ref =
        VmrsRefOf(t.vmrs_ref.nrows + 1, t.vmrs_ref.ncols)],
    [t EXCEPT !.vmrs_ref =
        VmrsRefOf(t.vmrs_ref.nrows, t.vmrs_ref.ncols + 1)],
    [t EXCEPT !.t_ref = TRefOf(nelem(t.t_ref) + 1)],
    [t EXCEPT !.nls_pert = Empty],
    [t EXCEPT !.nonlinear_species = Empty],
    [t EXCEPT !.xsec = XsecOf(t.xsec.nbooks + 1, t.xsec.npages,
                              t.xsec.nrows, t.xsec.ncols)],
    [t EXCEPT !.xsec = XsecOf(t.xsec.nbooks, t.xsec.npages + 1,
                              t.xsec.nrows, t.xsec.ncols)],
    [t EXCEPT !.xsec = XsecOf(t.xsec.nbooks, t.xsec.npages,
                              t.xsec.nrows + 1, t.xsec.ncols)],
    [t EXCEPT !.xsec = XsecOf(t.xsec.nbooks, t.xsec.npages,
                              t.xsec.nrows, t.xsec.ncols + 1)] }

\* The cases whose table is also tried with a defect.
DefectCases == FewSpeciesCases \X FewFreqCases \X FewShapeCases

\* The table is as read from a file, never adapted, and no call has been
\* made.
Init ==
  /\ \/ \E c \in Cases :
          /\ this = CaseTable(c)
          /\ current_species = c[1].cs
          /\ current_f_grid = c[2].cf
     \/ \E c \in DefectCases :
          /\ this \in Defects(CaseTable(c))
          /\ current_species = c[1].cs
          /\ current_f_grid = c[2].cf
  /\ pc = "idle"
  /\ outcomes = <<>>
  /\ before = this
  /\ new_table = EmptyLookup
  /\ i_current_species = Empty
  /\ i_current_f_grid = Empty
  /\ extract = NoExtract

Next == AdaptBegin \/ AdaptReplace \/ AdaptInitLog

Spec == Init /\ [][Next]_vars

\* ------------------------------------------- the grid locator on its own
\* find_new_grid_in_old_grid called as Adapt calls it, with the table's
\* f_grid as the old grid and current_f_grid as the new grid, both
\* increasing; the other members of the table play no part.
GridValues == 0..2 * MaxGrid

InitGrid ==
  /\ \E old_grid \in IncreasingVectors(GridValues, MaxGrid) :
       this = [EmptyLookup EXCEPT !.f_grid = old_grid]
  /\ current_f_grid \in IncreasingVectors(GridValues, MaxGrid)
  /\ current_species = Empty
  /\ pc = "idle"
  /\ outcomes = <<>>
  /\ before = this
  /\ new_table = EmptyLookup
  /\ i_current_species = Empty
  /\ i_current_f_grid = Empty
  /\ extract = NoExtract

\* One call: it returns the positions, or throws, or is stopped by a failed
\* index assertion when it reads outside the old grid.
GridLocate ==
  /\ pc = "idle"
  /\ \E assert_on \in AssertChoices(this, current_f_grid),
        g \in (IF ReadsOutsideGrid(this.f_grid, current_f_grid)
               THEN OutsideValues(GridValues) ELSE {0}) :
       LET found == find_new_grid_in_old_grid(this.f_grid, current_f_grid, g)
       IN  IF ReadsOutsideGrid(this.f_grid, current_f_grid) /\ assert_on
           THEN pc' = "aborted" /\ UNCHANGED i_current_f_grid
           ELSE IF found.found
                THEN pc' = "found" /\ i_current_f_grid' = found.pos
                ELSE pc' = "not_found" /\ UNCHANGED i_current_f_grid
  /\ UNCHANGED <<this, current_species, current_f_grid, outcomes, before,
                 new_table, i_current_species, extract>>

NextGrid == GridLocate

SpecGrid == InitGrid /\ [][NextGrid]_vars

\* ------------------------------------------------------ Extract, stepwise
\* Whether the next step of a call reads a grid outside its bounds, so that
\* the build (assertions or not) and the memory around the grid matter.
ExtractAssertChoices(t) ==
  IF \/ ~ExtractAssertsHold(t)
     \/ WritesOutsideNonLinear(t)
     \/ BoundsReadOutside(t.p_grid)
     \/ BoundsReadOutside(t.t_pert)
     \/ nelem(t.nonlinear_species) > 0 /\ BoundsReadOutside(t.nls_pert)
  THEN BOOLEAN ELSE {FALSE}

\* What lies before and behind a grid of one point: values below and above
\* every grid value here.
GarbageChoices(grid) ==
  IF BoundsReadOutside(grid) THEN {-1000, 1000} \X {-1000, 1000}
  ELSE {<<0, 0>>}

\* No call of Extract is between its call and its return.
NoCallInProgress == \A c \in Callers : extract[c].pc # "levels"

\* Caller c calls Extract with arguments a; the call runs to the end of
\* step 5.  sga is not touched.  Every caller makes one call.
ExtractBegin(c, a) ==
  /\ pc = "idle"
  /\ extract[c].pc = "idle"
  /\ \E assert_on \in ExtractAssertChoices(this),
        g \in GarbageChoices(this.p_grid) :
       LET r == ExtractChecked(this, a, assert_on, g)
           call == [extract[c] EXCEPT
                      !.p_interp_order = a.p_interp_order,
                      !.t_interp_order = a.t_interp_order,
                      !.h2o_interp_order = a.h2o_interp_order,
                      !.f_index = a.f_index, !.p = a.p, !.T = a.T,
                      !.abs_vmrs = a.abs_vmrs,
                      !.pgp = Empty, !.pi = 0,
                      !.xsec_pre_interpolated = Empty, !.error = "none"]
       IN  CASE r.kind = "abort" ->
                  /\ extract' = [extract EXCEPT
                                   ![c] = [call EXCEPT !.pc = "aborted"]]
                  /\ UNCHANGED this
             [] r.kind = "throw" ->
                  /\ extract' = [extract EXCEPT
                                   ![c] = [call EXCEPT !.pc = "failed",
                                                       !.error = r.error]]
                  /\ IF r.error = "PressureOutOfRange"
                     THEN this' \in TableDuringExtract(this)
                     ELSE UNCHANGED this
             [] r.kind = "go" ->
                  /\ extract' = [extract EXCEPT
                                   ![c] = [call EXCEPT !.pc = "levels",
                                                       !.pgp = r.pgp]]
                  /\ this' \in TableDuringExtract(this)
  /\ UNCHANGED <<current_species, current_f_grid, pc, outcomes, before,
                 new_table, i_current_species, i_current_f_grid>>

\* Mutant: xsec_pre_interpolated is one buffer that all calls share; a pass
\* of one call overwrites the elements the other calls have in common with
\* it.
ExtractPressureLevel_SharedBuffer(c) ==
  /\ extract[c].pc = "levels"
  /\ extract[c].pi < extract[c].p_interp_order + 1
  /\ LET call == extract[c]
         r == ExtractLevel(this, call, call.pgp[call.pi], FALSE, <<0, 0>>)
     IN  extract' =
           [d \in Callers |->
              IF d = c
              THEN CASE r.kind = "abort" -> [call EXCEPT !.pc = "aborted"]
                     [] r.kind = "throw" ->
                          [call EXCEPT !.pc = "failed", !.error = r.error]
                     [] r.kind = "go" ->
                          [call EXCEPT
                             !.pi = call.pi + 1,
                             !.xsec_pre_interpolated =
                                PushBack(call.xsec_pre_interpolated, r.res)]
              ELSE IF r.kind = "go" /\ extract[d].pc = "levels"
                   THEN [extract[d] EXCEPT
                           !.xsec_pre_interpolated =
                              [k \in DOMAIN extract[d].xsec_pre_interpolated
                                 |-> [x \in DOMAIN
                                          extract[d].xsec_pre_interpolated[k]
                                        |-> IF x \in DOMAIN r.res
                                            THEN r.res[x]
                                            ELSE extract[d]
                                                   .xsec_pre_interpolated[k][x]]]]
                   ELSE extract[d]]
  /\ UNCHANGED <<this, current_species, current_f_grid, pc, outcomes, before,
                 new_table, i_current_species, i_current_f_grid>>

\* One pass of the loop over the pressure levels: a range check throws, or
\* the slice pi of xsec_pre_interpolated is filled.
ExtractPressureLevel(c) ==
  /\ extract[c].pc = "levels"
  /\ extract[c].pi < extract[c].p_interp_order + 1
  /\ \E assert_on \in ExtractAssertChoices(this),
        g \in GarbageChoices(this.t_pert) \cup GarbageChoices(this.nls_pert) :
       LET call == extract[c]
           r == ExtractLevel(this, call, call.pgp[call.pi], assert_on, g)
       IN  extract' =
             [extract EXCEPT ![c] =
                CASE r.kind = "abort" -> [call EXCEPT !.pc = "aborted"]
                  [] r.kind = "throw" ->
                       [call EXCEPT !.pc = "failed", !.error = r.error]
                  [] r.kind = "go" ->
                       [call EXCEPT
                          !.pi = call.pi + 1,
                          !.xsec_pre_interpolated =
                             PushBack(call.xsec_pre_interpolated, r.res),
                          !.sga = SgaInLoop(call)]]
  /\ UNCHANGED <<this, current_species, current_f_grid, pc, outcomes, before,
                 new_table, i_current_species, i_current_f_grid>>

\* After the loop: sga is resized and filled, and the call returns.
ExtractReturn(c) ==
  /\ extract[c].pc = "levels"
  /\ extract[c].pi = extract[c].p_interp_order + 1
  /\ extract' =
       [extract EXCEPT ![c] =
          [extract[c] EXCEPT
             !.pc = "returned",
             !.sga = ExtractSga(this, extract[c],
                                extract[c].xsec_pre_interpolated)]]
  /\ UNCHANGED <<this, current_species, current_f_grid, pc, outcomes, before,
                 new_table, i_current_species, i_current_f_grid>>

\* ------------------------------------------- the tables Extract is tried on
\* The table t with its log_p_grid as a successful Adapt leaves it; never
\* filled; of another length than p_grid; or of the length of p_grid but
\* the log of another pressure grid (the members of a table can be set
\* anew, friend functions of the class do so, without log_p_grid following).
CacheKinds == {"adapted", "never", "short", "stale"}

WithCache(t, kind) ==
  CASE kind = "adapted" -> InitLogPGrid(t, nelem(t.p_grid))
    [] kind = "never" -> [t EXCEPT !.log_p_grid = Empty]
    [] kind = "short" ->
         [t EXCEPT !.log_p_grid =
            [k \in 0..nelem(t.p_grid) - 2 |-> Log(t.p_grid[k])]]
    [] kind = "stale" ->
         [t EXCEPT !.log_p_grid =
            [k \in DOMAIN t.p_grid |-> Log(2 * t.p_grid[k])]]

\* Species and nonlinear species of the tables: with and without nonlinear
\* species, with H2O first, last and missing.
ExtractSpeciesCases ==
  LET h == [k \in 0..0 |-> "H2O"]
      o == [k \in 0..0 |-> "O2"]
      ho == [k \in 0..1 |-> IF k = 0 THEN "H2O" ELSE "O2"]
  IN  { [sp |-> h, nls |-> Empty], [sp |-> o, nls |-> Empty],
        [sp |-> ho, nls |-> Empty],
        [sp |-> ho, nls |-> [k \in 0..0 |-> 1]],
        [sp |-> Reverse(ho), nls |-> [k \in 0..1 |-> k]],
        [sp |-> o, nls |-> [k \in 0..0 |-> 0]],
        [sp |-> [k \in 0..1 |-> "H2O"], nls |-> [k \in 0..0 |-> 1]] }

DefaultSpeciesCase ==
  [sp |-> [k \in 0..1 |-> IF k = 0 THEN "H2O" ELSE "O2"],
   nls |-> [k \in 0..0 |-> 1]]

\* Numbers of pressures, temperature perturbations and humidity
\* perturbations: up to one more than the largest interpolation order.
ExtractShapeCases ==
  [np : 1..MaxOrder + 1, nt : 0..MaxOrder + 1, nh : 1..MaxOrder + 1]

DefaultShapeCase ==
  [np |-> MaxOrder + 1, nt |-> MaxOrder + 1, nh |-> MaxOrder + 1]

\* The table of a species case and a shape case, of the documented shape,
\* with the frequency grid 0, 2, 4, ...
ExtractTableOf(sc, sh) ==
  TableOf(sc.sp, sc.nls, [k \in 0..MaxFreq - 1 |-> 2 * k], sh.np, sh.nt,
          IF nelem(sc.nls) = 0 THEN 0 ELSE sh.nh, Max(sh.nt, 1))

\* A table with nonlinear species and no temperature perturbations as Adapt
\* accepts and leaves it: xsec has no book.
TableWithoutBook ==
  TableOf(DefaultSpeciesCase.sp, DefaultSpeciesCase.nls,
          [k \in 0..MaxFreq - 1 |-> 2 * k], MaxOrder + 1, 0, MaxOrder + 1, 0)

ExtractTables ==
  { WithCache(ExtractTableOf(sc, DefaultShapeCase), "adapted") :
      sc \in ExtractSpeciesCases }
    \cup { WithCache(ExtractTableOf(DefaultSpeciesCase, sh), "adapted") :
             sh \in ExtractShapeCases }
    \cup { WithCache(ExtractTableOf(DefaultSpeciesCase, DefaultShapeCase), k) :
             k \in CacheKinds }
    \cup { WithCache(ExtractTableOf(sc, [DefaultShapeCase EXCEPT !.nt = 0]),
                     "adapted") :
             sc \in { c \in ExtractSpeciesCases : nelem(c.nls) = 0 } }
    \cup { WithCache(TableWithoutBook, "adapted") }

\* --------------------------------------- the arguments Extract is tried with
Orders == 0..MaxOrder

\* VMRs at which the H2O fraction is 1 at the first pressure level; the
\* other species have the VMRs 2, 3, ... in the order of the table.
DefaultVmrs(t) ==
  [k \in DOMAIN t.species |->
     IF k = H2OIndex(t) THEN t.vmrs_ref.data[<<k, 0>>] ELSE k + 2]

\* All frequencies at the first pressure of the table and the reference
\* temperature there, every order 0.
DefaultArgs(t) ==
  [p_interp_order |-> 0, t_interp_order |-> 0, h2o_interp_order |-> 0,
   f_index |-> -1, p |-> t.p_grid[0], T |-> t.t_ref[0],
   abs_vmrs |-> DefaultVmrs(t)]

\* Pressures from below the range of every table here to above it.
PressureValues == 0..(5 * 2 ^ (MaxOrder + 1)) \div 4 + 1

\* The pressures of the table's grid and those between them.
GridPressures(t) == t.p_grid[nelem(t.p_grid) - 1]..t.p_grid[0]

\* Temperatures at and next to the bounds of the temperature range of
\* each pressure level.
TemperatureValues(t) ==
  IF nelem(t.t_pert) < 2 THEN {t.t_ref[0]}
  ELSE LET lo == FirstBound2(t.t_pert, <<0, 0>>) \div 2
           hi == LastBound2(t.t_pert, <<0, 0>>) \div 2
       IN  UNION { { t.t_ref[k] + lo - 1, t.t_ref[k] + lo, t.t_ref[k] + hi,
                     t.t_ref[k] + hi + 1 } : k \in DOMAIN t.t_ref }

\* VMRs of H2O at and next to the bounds of the humidity range of each
\* pressure level.
HumidityValues(t) ==
  IF H2OIndex(t) = -1 \/ nelem(t.nls_pert) < 2
  THEN {DefaultVmrs(t)}
  ELSE LET lo2 == FirstBound2(t.nls_pert, <<0, 0>>)
           hi2 == LastBound2(t.nls_pert, <<0, 0>>)
           ref(k) == t.vmrs_ref.data[<<H2OIndex(t), k>>]
       IN  { [DefaultVmrs(t) EXCEPT ![H2OIndex(t)] = v] :
               v \in UNION { { (lo2 * ref(k) + 1) \div 2 - 1,
                               (lo2 * ref(k) + 1) \div 2,
                               (hi2 * ref(k)) \div 2,
                               (hi2 * ref(k)) \div 2 + 1 } :
                             k \in 0..t.vmrs_ref.ncols - 1 } }

\* The arguments tried on table t: every combination of orders; every
\* f_index; every pressure; the temperatures and the humidities around the
\* range bounds, at the pressures of the grid and with every pressure
\* order; abs_vmrs of a wrong length.
ExtractArgs(t) ==
  LET d == DefaultArgs(t)
  IN  { [d EXCEPT !.p_interp_order = po, !.t_interp_order = to,
                  !.h2o_interp_order = ho] :
          po \in Orders, to \in Orders, ho \in Orders }
        \cup { [d EXCEPT !.f_index = f] : f \in -1..MaxFreq }
        \cup { [d EXCEPT !.p_interp_order = po, !.p = pp] :
                 po \in Orders, pp \in PressureValues }
        \cup { [d EXCEPT !.p_interp_order = po, !.p = pp, !.T = tt] :
                 po \in Orders, pp \in GridPressures(t),
                 tt \in TemperatureValues(t) }
        \cup { [d EXCEPT !.p_interp_order = po, !.p = pp, !.abs_vmrs = v] :
                 po \in Orders, pp \in GridPressures(t),
                 v \in HumidityValues(t) }
        \cup { [d EXCEPT !.abs_vmrs = Empty],
                 [d EXCEPT !.abs_vmrs = PushBack(DefaultVmrs(t), 1)] }

\* ------------------------------------------------- Extract, one caller
\* A table, adapted or not, and one caller that calls Extract; Adapt is not
\* called.
InitExtract ==
  /\ this \in ExtractTables
  /\ current_species = Empty
  /\ current_f_grid = Empty
  /\ pc = "idle"
  /\ outcomes = <<>>
  /\ before = this
  /\ new_table = EmptyLookup
  /\ i_current_species = Empty
  /\ i_current_f_grid = Empty
  /\ extract = NoExtract

ExtractCall == \E a \in ExtractArgs(this) : ExtractBegin(1, a)

NextExtract == ExtractCall \/ ExtractPressureLevel(1) \/ ExtractReturn(1)

SpecExtract == InitExtract /\ [][NextExtract]_vars

\* ------------------------------------------------- Adapt, then Extract
\* Tables as read from a file, never adapted, of the documented shape or of
\* the shape without a book; the request keeps the table as it is, or
\* keeps its first species and its last frequency.  Adapt is called up to
\* MaxCalls times, and the caller calls Extract before, between or after.
AdaptExtractTables ==
  { WithCache(ExtractTableOf(sc, DefaultShapeCase), "never") :
      sc \in ExtractSpeciesCases }
    \cup { WithCache(ExtractTableOf(DefaultSpeciesCase, sh), "never") :
             sh \in { c \in ExtractShapeCases : c.np = MaxOrder + 1 } }
    \cup { WithCache(TableWithoutBook, "never") }

InitAdaptExtract ==
  /\ this \in AdaptExtractTables
  /\ \/ current_species = this.species /\ current_f_grid = this.f_grid
     \/ /\ current_species = [k \in 0..0 |-> this.species[0]]
        /\ current_f_grid = [k \in 0..0 |-> this.f_grid[MaxFreq - 1]]
  /\ pc = "idle"
  /\ outcomes = <<>>
  /\ before = this
  /\ new_table = EmptyLookup
  /\ i_current_species = Empty
  /\ i_current_f_grid = Empty
  /\ extract = NoExtract

\* The arguments tried: every combination of orders, and every f_index.
FewExtractArgs(t) ==
  LET d == DefaultArgs(t)
  IN  { [d EXCEPT !.p_interp_order = po, !.t_interp_order = to,
                  !.h2o_interp_order = ho] :
          po \in Orders, to \in Orders, ho \in Orders }
        \cup { [d EXCEPT !.f_index = f] : f \in -1..MaxFreq }

ExtractCallFew == \E a \in FewExtractArgs(this) : ExtractBegin(1, a)

AdaptCall == NoCallInProgress /\ AdaptBegin

NextAdaptExtract ==
  \/ AdaptCall
  \/ AdaptReplace
  \/ AdaptInitLog
  \/ ExtractCallFew
  \/ ExtractPressureLevel(1)
  \/ ExtractReturn(1)

SpecAdaptExtract == InitAdaptExtract /\ [][NextAdaptExtract]_vars

\* ------------------------------------------------- concurrent callers
\* Adapted tables with every grid of MaxOrder + 1 points, with and without
\* the temperature axis.
ConcurrentTables ==
  { WithCache(ExtractTableOf(DefaultSpeciesCase, sh), "adapted") :
      sh \in { c \in ExtractShapeCases :
                 c.np = MaxOrder + 1 /\ c.nh = MaxOrder + 1
                 /\ c.nt \in {0, MaxOrder + 1} } }

\* Arguments of calls that return, for all frequencies and for one, and of
\* calls that throw before and inside the loop over the pressure levels.
ConcurrentArgs(t) ==
  LET d == DefaultArgs(t)
  IN  { d,
        [d EXCEPT !.p_interp_order = MaxOrder],
        [d EXCEPT !.f_index = 0],
        [d EXCEPT !.p = t.p_grid[nelem(t.p_grid) - 1]],
        [d EXCEPT !.f_index = MaxFreq],
        [d EXCEPT !.abs_vmrs[0] = 0] }

InitConcurrent ==
  /\ this \in ConcurrentTables
  /\ current_species = Empty
  /\ current_f_grid = Empty
  /\ pc = "idle"
  /\ outcomes = <<>>
  /\ before = this
  /\ new_table = EmptyLookup
  /\ i_current_species = Empty
  /\ i_current_f_grid = Empty
  /\ extract = NoExtract

ConcurrentCall == \E c \in Callers : \E a \in ConcurrentArgs(this) : ExtractBegin(c, a)

ConcurrentLevel == \E c \in Callers : ExtractPressureLevel(c)

ConcurrentReturn == \E c \in Callers : ExtractReturn(c)

NextConcurrent == ConcurrentCall \/ ConcurrentLevel \/ ConcurrentReturn

SpecConcurrent == InitConcurrent /\ [][NextConcurrent]_vars

\* ------------------------------------------------------------- the claims
\* Old grid point k is within the tolerance of new grid point i.
Matches(old_grid, new_grid, i, k) ==
  Abs(new_grid[i] - old_grid[k]) <= tolerance

\* C1: whenever the grid locator returns normally, every returned position
\* is an index of the old grid (0 <= pos[i] < m) and the old grid point
\* there is within the tolerance of 1 of the new grid point.
C1_PositionsMatch ==
  pc = "found" =>
    \A i \in DOMAIN current_f_grid :
       /\ 0 <= i_current_f_grid[i]
       /\ i_current_f_grid[i] < nelem(this.f_grid)
       /\ Matches(this.f_grid, current_f_grid, i, i_current_f_grid[i])

\* C2: the grid locator fails with GridPointNotFound if and only if some new
\* grid point has no point of the whole old grid within the tolerance.
C2_FailsIffUnmatched ==
  pc # "idle" =>
    (pc = "not_found" <=>
       \E i \in DOMAIN current_f_grid :
          \A k \in DOMAIN this.f_grid :
             ~Matches(this.f_grid, current_f_grid, i, k))

\* A call of Adapt has returned or thrown, and no other is in progress.
CallEnded == pc = "idle" /\ Len(outcomes) > 0

\* How the last call ended.
LastOutcome == outcomes[Len(outcomes)]

\* log(p_grid) of table t.
LogOf(t) == [k \in DOMAIN t.p_grid |-> Log(t.p_grid[k])]

\* C3: if Adapt fails with any error, every field of the caller's table,
\* logPressureGrid included, is as it was before the call.
C3_FailureLeavesTable ==
  (CallEnded /\ LastOutcome # "ok") => this = before

\* C4 as claimed: at every step of Adapt the caller's table is either the
\* complete table of before the call or the complete new table with
\* logPressureGrid = log(pressureGrid).
C4_NoIntermediateState ==
  pc \in {"replace", "init_log"} =>
    \/ this = before
    \/ this = [new_table EXCEPT !.log_p_grid = LogOf(new_table)]

\* C4 as amended: Adapt replaces the table in two steps.  Up to step 4 the
\* table is the one of before the call; between step 4 and step 5 it is the
\* new table with an empty logPressureGrid; when Adapt returns it is the new
\* table with logPressureGrid = log(pressureGrid), of length n_press.
C4_ReplaceThenInitLog ==
  /\ pc = "replace" => this = before
  /\ pc = "init_log" => this = new_table /\ nelem(this.log_p_grid) = 0
  /\ (CallEnded /\ LastOutcome = "ok") =>
       /\ this = [new_table EXCEPT !.log_p_grid = LogOf(new_table)]
       /\ nelem(this.log_p_grid) = nelem(this.p_grid)

\* C4 witness: Adapt is between step 4 and step 5 on a table with pressures.
C4_Witness ==
  pc = "init_log" /\ nelem(this.p_grid) > 0 /\ this # before

\* C5: Adapt is idempotent: when Adapt(T, S, F) succeeds, Adapt with the
\* same S and F on the result succeeds too and leaves a table equal to it in
\* every field.
C5_Idempotent ==
  (CallEnded /\ Len(outcomes) >= 2 /\ outcomes[Len(outcomes) - 1] = "ok") =>
    (LastOutcome = "ok" /\ this = before)

\* The values of an array, as a set.
Range(v) == { v[k] : k \in DOMAIN v }

\* Tables a and b are equal in every field but logPressureGrid, with
\* nonlinearSpecies compared as the set of indices it is.
SameButLog(a, b) ==
  /\ [a EXCEPT !.log_p_grid = Empty, !.nonlinear_species = Empty]
       = [b EXCEPT !.log_p_grid = Empty, !.nonlinear_species = Empty]
  /\ Range(a.nonlinear_species) = Range(b.nonlinear_species)

\* C6: for a table T that passes the self-checks, Adapt(T, T.species,
\* T.frequencyGrid) yields a table equal to T in every field but
\* logPressureGrid, each frequency being located at its own position.
C6_TrivialSubsetRoundTrip ==
  ( /\ CallEnded
    /\ Len(outcomes) = 1
    /\ TableCheckError(before) = "none"
    /\ current_species = before.species
    /\ current_f_grid = before.f_grid ) =>
      /\ LastOutcome = "ok"
      /\ SameButLog(this, before)
      /\ i_current_f_grid = [i \in DOMAIN before.f_grid |-> i]

\* C7: after a successful Adapt the new frequencyGrid is strictly increasing
\* and the new pressureGrid strictly decreasing, and the located positions
\* are pairwise distinct.
C7_GridsStrictlyMonotone ==
  (CallEnded /\ LastOutcome = "ok") =>
    /\ is_increasing(this.f_grid)
    /\ is_decreasing(this.p_grid)
    /\ is_unique(i_current_f_grid)

\* The shape the data model gives the coefficients of table t:
\* (max(n_tpert, 1), n_species + |nonlinearSpecies| (n_hpert - 1), n_freq,
\* n_press).
HasDocumentedShape(t) ==
  /\ t.xsec.nbooks = Max(nelem(t.t_pert), 1)
  /\ t.xsec.npages =
       nelem(t.species) + nelem(t.nonlinear_species) * (nelem(t.nls_pert) - 1)
  /\ t.xsec.nrows = nelem(t.f_grid)
  /\ t.xsec.ncols = nelem(t.p_grid)

\* C8: after a successful Adapt the coefficients of the new table have the
\* shape the data model gives, computed from the sizes of the new table.
C8_NewShape ==
  (CallEnded /\ LastOutcome = "ok") => HasDocumentedShape(this)

\* The positions in the requested species list whose species is a nonlinear
\* species of table t.
NonlinearPositions(t, cs) ==
  { i \in DOMAIN cs :
      \E k \in DOMAIN t.species :
         /\ t.species[k] = cs[i]
         /\ \E s \in DOMAIN t.nonlinear_species : t.nonlinear_species[s] = k }

\* C9: after a successful Adapt, nonlinearSpecies of the new table is
\* exactly the set of positions of the request whose species was nonlinear
\* in the original table, unique and in range; humidityPerturbations is the
\* original one if that set is not empty and is empty otherwise.
C9_NonlinearSubset ==
  (CallEnded /\ LastOutcome = "ok") =>
    /\ is_unique(this.nonlinear_species)
    /\ Range(this.nonlinear_species)
         = NonlinearPositions(before, current_species)
    /\ \A s \in DOMAIN this.nonlinear_species :
          this.nonlinear_species[s] \in 0..nelem(this.species) - 1
    /\ this.nls_pert =
         IF NonlinearPositions(before, current_species) # {}
         THEN before.nls_pert ELSE Empty
    /\ nelem(this.nls_pert) = 0 <=> nelem(this.nonlinear_species) = 0

\* C9 witness: a successful Adapt whose request drops every nonlinear
\* species of a table that had one.
C9_Witness ==
  /\ CallEnded
  /\ LastOutcome = "ok"
  /\ nelem(before.nonlinear_species) > 0
  /\ nelem(before.nls_pert) > 0
  /\ nelem(this.nonlinear_species) = 0

\* C10: on a table that passes the checks made before it, the shape
\* self-check accepts the table if and only if its coefficients have the
\* shape the data model gives, and fails with ShapeMismatch otherwise.
C10_ShapeCheck ==
  ( /\ Len(outcomes) = 1
    /\ TableCheckError(before) \in {"none", "ShapeMismatch"} ) =>
      (outcomes[1] = "ShapeMismatch" <=> ~HasDocumentedShape(before))

\* The first entry of the request that does not occur exactly once in the
\* species of table t; -1 if there is none.
FirstBadSpecies(t, cs) ==
  LET bad == { i \in DOMAIN cs : Cardinality(Occurrences(t.species, cs[i])) # 1 }
  IN  IF bad = {} THEN -1 ELSE CHOOSE i \in bad : \A k \in bad : i <= k

\* C11: Adapt requires every entry of the requested species to occur in the
\* table's species exactly once.  When the earlier checks pass, the call
\* fails at the first entry that does not, with SpeciesNotFound if it occurs
\* zero times and with the not-unique error if it occurs more than once;
\* otherwise a successful call leaves as species[i] of the new table the
\* table species at the one matching index, in request order.
C11_SpeciesExactlyOnce ==
  (/\ CallEnded
   /\ TableCheckError(before) = "none"
   /\ nelem(current_species) > 0
   /\ is_increasing(current_f_grid)) =>
    LET b == FirstBadSpecies(before, current_species)
    IN  IF b # -1
        THEN LastOutcome =
               (IF Occurrences(before.species, current_species[b]) = {}
                THEN "SpeciesNotFound" ELSE "SpeciesNotUnique")
        ELSE LastOutcome = "ok" =>
               /\ nelem(this.species) = nelem(current_species)
               /\ \A i \in DOMAIN current_species :
                     \E k \in DOMAIN before.species :
                        /\ Occurrences(before.species, current_species[i]) = {k}
                        /\ this.species[i] = before.species[k]
                        /\ this.species[i] = current_species[i]
                        /\ i_current_species[i] = k

\* C11 witness: a successful call whose request lists two species of the
\* table in the other order.
C11_Witness ==
  /\ CallEnded
  /\ LastOutcome = "ok"
  /\ nelem(current_species) = 2
  /\ i_current_species[0] = 1
  /\ i_current_species[1] = 0
  /\ this.species[0] = before.species[1]
  /\ this.species[0] # this.species[1]

\* A call of Extract by caller c starts in this step.
ExtractStarts(c) == extract[c].pc = "idle" /\ extract'[c].pc # "idle"

\* The table has the dimensions the data model gives it, which Extract
\* asserts, and a humidity reference species if it needs one.
ExtractAcceptsShape(t) ==
  /\ ExtractAssertsHold(t)
  /\ ~(nelem(t.nonlinear_species) > 0 /\ H2OIndex(t) = -1)

\* C12: after every successful Adapt, also after several, log_p_grid has as
\* many elements as p_grid and is its element-wise logarithm, so that a
\* following Extract never fails with TableNotAdapted; and Extract on a
\* table whose log_p_grid has another length than p_grid fails with
\* TableNotAdapted, when the table has its documented dimensions and the
\* check of the humidity reference species passes.
C12_AdaptFillsLogPGrid ==
  /\ [](CallEnded /\ LastOutcome = "ok"
          => /\ nelem(this.log_p_grid) = nelem(this.p_grid)
             /\ this.log_p_grid = LogOf(this))
  /\ [][(ExtractStarts(1) /\ Len(outcomes) > 0 /\ LastOutcome = "ok")
          => extract'[1].error # "TableNotAdapted"]_vars
  /\ [][(/\ ExtractStarts(1)
          /\ nelem(this.log_p_grid) # nelem(this.p_grid)
          /\ ExtractAcceptsShape(this))
          => extract'[1].error = "TableNotAdapted"]_vars

\* Extract has passed the check of log_p_grid on a table that two calls of
\* Adapt have made.
C12_Witness ==
  /\ Len(outcomes) = MaxCalls
  /\ \A k \in 1..MaxCalls : outcomes[k] = "ok"
  /\ pc = "idle"
  /\ extract[1].pc = "returned"

\* C13: Extract fails whenever log_p_grid is missing or is not the log of
\* the present p_grid, also when it has the length of p_grid but was
\* computed from another pressure grid.
C13_StaleCacheFails ==
  this.log_p_grid # LogOf(this) => extract[1].pc # "returned"

\* C14: Extract leaves every field of the table as it was, whether it
\* returns a result or fails, whatever its arguments and whatever table
\* with nonlinear species inside the species list it is called on.
C14_ExtractLeavesTable ==
  /\ [](extract[1].pc # "idle" => this = before)
  /\ [][\A c \in Callers : extract'[c] # extract[c] => this' = this]_vars

\* A call has failed after its write to non_linear, on a table whose
\* log_p_grid is not the log of its p_grid, and the table is as it was.
C14_Witness ==
  /\ extract[1].pc = "failed"
  /\ extract[1].error \in {"PressureOutOfRange", "TemperatureOutOfRange"}
  /\ this.log_p_grid # LogOf(this)
  /\ this = before

\* The loop over the pressure levels of a call run alone, from level pi on:
\* the error of the first level that throws, or the slices of all levels.
RECURSIVE AloneLevels(_, _, _, _)
AloneLevels(t, call, pi, done) ==
  IF pi = call.p_interp_order + 1
  THEN [kind |-> "go", res |-> done]
  ELSE LET r == ExtractLevel(t, call, call.pgp[pi], FALSE, <<0, 0>>)
       IN  IF r.kind = "go"
           THEN AloneLevels(t, call, pi + 1, PushBack(done, r.res))
           ELSE r

\* How the call of caller c ends when it runs alone on table t: with an
\* error, or with a result.
ExtractAlone(t, call) ==
  LET r == ExtractChecked(t, call, FALSE, <<0, 0>>)
  IN  IF r.kind # "go" THEN [error |-> r.error, sga |-> NoCall.sga]
      ELSE LET l == AloneLevels(t, [call EXCEPT !.pgp = r.pgp], 0, Empty)
           IN  IF l.kind # "go" THEN [error |-> l.error, sga |-> NoCall.sga]
               ELSE [error |-> "none",
                     sga |-> ExtractSga(t, [call EXCEPT !.pgp = r.pgp], l.res)]

\* C15: calls of Extract that run at the same time on one adapted table,
\* each with its own sga, end under every interleaving of their steps as
\* each of them ends alone: with the same error, or with the same result.
C15_ConcurrentAsAlone ==
  \A c \in Callers :
    /\ extract[c].pc # "aborted"
    /\ extract[c].pc = "failed" =>
          extract[c].error = ExtractAlone(this, extract[c]).error
    /\ extract[c].pc = "returned" =>
          /\ ExtractAlone(this, extract[c]).error = "none"
          /\ extract[c].sga = ExtractAlone(this, extract[c]).sga

\* Two calls with different arguments have run interleaved, one has
\* returned and the other is between two pressure levels.
C15_Witness ==
  /\ extract[1].pc = "returned"
  /\ extract[1].p_interp_order = MaxOrder
  /\ extract[2].pc = "levels"
  /\ extract[2].pi = 1
  /\ extract[2].f_index = 0

\* The checks that Extract makes before those of the interpolation orders
\* pass on table t.
OrderChecksReached(t) ==
  ExtractAcceptsShape(t) /\ nelem(t.log_p_grid) = nelem(t.p_grid)

\* C16: when the earlier checks pass, Extract fails with
\* InsufficientGridForOrder exactly when p_grid has fewer than
\* p_interp_order + 1 points, or nls_pert is not empty and has fewer than
\* h2o_interp_order + 1, or t_pert is not empty and has fewer than
\* t_interp_order + 1; an empty t_pert or nls_pert never gives this error.
C16_InsufficientGridForOrder ==
  (extract[1].pc # "idle" /\ OrderChecksReached(this)) =>
    /\ extract[1].error = "InsufficientGridForOrder" <=>
          \/ nelem(this.p_grid) < extract[1].p_interp_order + 1
          \/ /\ nelem(this.nls_pert) > 0
             /\ nelem(this.nls_pert) < extract[1].h2o_interp_order + 1
          \/ /\ nelem(this.t_pert) > 0
             /\ nelem(this.t_pert) < extract[1].t_interp_order + 1
    /\ ( /\ nelem(this.p_grid) >= extract[1].p_interp_order + 1
         /\ nelem(this.t_pert) = 0
         /\ nelem(this.nls_pert) = 0 )
          => extract[1].error # "InsufficientGridForOrder"

\* A call with orders above 0 has returned on a table without temperature
\* and humidity axis.
C16_Witness ==
  /\ extract[1].pc = "returned"
  /\ nelem(this.t_pert) = 0
  /\ nelem(this.nls_pert) = 0
  /\ extract[1].t_interp_order > 0
  /\ extract[1].h2o_interp_order > 0

\* The frequency index of the place in xsec that the coefficient v of the
\* tables here names (see XsecValue).
FrequencyOf(v) == (v \div 10) % 10

\* C17: with a negative f_index the result has a row for every frequency of
\* f_grid, in the order of the grid; with 0 <= f_index < n_f_grid it has
\* one row, for the frequency f_index; with f_index >= n_f_grid Extract
\* fails with IndexOutOfRange (when the checks made before pass); and every
\* result has a column for every species.
C17_FrequencySelection ==
  LET a == extract[1]
      n_f_grid == nelem(this.f_grid)
  IN  /\ a.pc = "returned" =>
            /\ a.sga.ncols = nelem(this.species)
            /\ a.sga.nrows = IF a.f_index < 0 THEN n_f_grid ELSE 1
            /\ a.f_index < n_f_grid
            /\ ExtractAssertsHold(this) =>
                 \A x \in DOMAIN a.sga.data :
                   /\ a.sga.data[x].terms # {}
                   /\ \A e \in a.sga.data[x].terms :
                        FrequencyOf(e[4])
                          = IF a.f_index < 0 THEN x[1] ELSE a.f_index
      /\ ( /\ a.pc # "idle"
           /\ OrderChecksReached(this)
           /\ ~TooFewGridPoints(this, a)
           /\ nelem(a.abs_vmrs) = nelem(this.species) )
            => (a.error = "IndexOutOfRange" <=> a.f_index >= n_f_grid)

\* A call for the last frequency alone has returned.
C17_Witness ==
  /\ extract[1].pc = "returned"
  /\ extract[1].f_index = nelem(this.f_grid) - 1
  /\ extract[1].f_index > 0
  /\ extract[1].sga.nrows = 1
  /\ nelem(this.species) > 1

\* The checks that Extract makes before the range check of p pass for the
\* call a on table t.
PressureCheckReached(t, a) ==
  /\ OrderChecksReached(t)
  /\ ~TooFewGridPoints(t, a)
  /\ nelem(a.abs_vmrs) = nelem(t.species)
  /\ a.f_index < nelem(t.f_grid)

\* The call has passed the range check of p: it has its pressure grid
\* positions.
PressureAccepted(a) == a.pgp # Empty

\* The call has come to its end, in whatever way.
Ended(a) == a.pc \in {"returned", "failed", "aborted"}

\* What lies next to a grid if the spacing beside a grid of one point is
\* taken as 0.
NoSpacing(grid) == <<grid[0], grid[0]>>

\* x = num/den (den > 0) lies inside the grid extended by half the adjacent
\* grid spacing at each end; the grid is increasing or decreasing.
InsideHalfBins(grid, num, den) ==
  LET b1 == FirstBound2(grid, NoSpacing(grid)) * den
      b2 == LastBound2(grid, NoSpacing(grid)) * den
  IN  \/ b1 <= 2 * num /\ 2 * num <= b2
      \/ b2 <= 2 * num /\ 2 * num <= b1

\* C18: with every other precondition met, Extract accepts p if and only
\* if p_grid[last] - 0.5*(p_grid[last-1] - p_grid[last]) <= p <=
\* p_grid[0] + 0.5*(p_grid[0] - p_grid[1]), both bounds included and each
\* half width taken from the grid spacing at its end, and fails with
\* PressureOutOfRange otherwise.
C18_PressureRange ==
  LET a == extract[1]
  IN  (a.pc # "idle" /\ PressureCheckReached(this, a)) =>
        /\ PressureAccepted(a) <=> InsideHalfBins(this.p_grid, a.p, 1)
        /\ a.error = "PressureOutOfRange"
              <=> ~InsideHalfBins(this.p_grid, a.p, 1)

\* The temperature offset of call a is inside the range of t_pert at
\* every pressure level that the call uses.
TemperatureInside(t, a) ==
  \A k \in DOMAIN a.pgp :
    InsideHalfBins(t.t_pert, a.T - t.t_ref[a.pgp[k]], 1)

\* The fractional VMR of H2O of call a is inside the range of nls_pert at
\* every pressure level that the call uses.
HumidityInside(t, a) ==
  \A k \in DOMAIN a.pgp :
    InsideHalfBins(t.nls_pert, a.abs_vmrs[H2OIndex(t)],
                   t.vmrs_ref.data[<<H2OIndex(t), a.pgp[k]>>])

\* C19: on a table with temperature perturbations a call that has passed
\* the checks before (and whose humidity is in range) fails with
\* TemperatureOutOfRange if and only if at one of its p_interp_order + 1
\* pressure levels T - t_ref[level] lies outside
\* [t_pert[0] - 0.5*(t_pert[1]-t_pert[0]),
\*  t_pert[last] + 0.5*(t_pert[last]-t_pert[last-1])]; on a table without
\* temperature perturbations the check is never made.
C19_TemperatureRange ==
  LET a == extract[1]
  IN  /\ ( /\ Ended(a) /\ PressureCheckReached(this, a)
           /\ PressureAccepted(a)
           /\ nelem(this.t_pert) > 0
           /\ nelem(this.nonlinear_species) > 0 => HumidityInside(this, a) )
            => (a.error = "TemperatureOutOfRange"
                  <=> ~TemperatureInside(this, a))
      /\ nelem(this.t_pert) = 0 => a.error # "TemperatureOutOfRange"

\* C20: on a table with nonlinear species a call that no earlier check has
\* failed fails with HumidityOutOfRange if and only if at one of its
\* p_interp_order + 1 pressure levels abs_vmrs[h2o] / vmrs_ref[h2o, level]
\* lies outside [nls_pert[0] - 0.5*(nls_pert[1]-nls_pert[0]),
\* nls_pert[last] + 0.5*(nls_pert[last]-nls_pert[last-1])]; on a table
\* without nonlinear species no VMR gives a range error.
C20_HumidityRange ==
  LET a == extract[1]
  IN  /\ ( /\ Ended(a) /\ PressureCheckReached(this, a)
           /\ PressureAccepted(a)
           /\ nelem(this.nonlinear_species) > 0
           /\ nelem(this.t_pert) > 0 => TemperatureInside(this, a) )
            => (a.error = "HumidityOutOfRange" <=> ~HumidityInside(this, a))
      /\ nelem(this.nonlinear_species) = 0
            => a.error # "HumidityOutOfRange"

\* C21 as claimed: with nonlinear species Extract requires exactly one
\* species of the table to be H2O, and fails with
\* NoHumidityReferenceSpecies when none is; without nonlinear species a
\* table without H2O is no error.
C21_ExactlyOneH2O ==
  LET a == extract[1]
      n_h2o == Cardinality(Occurrences(this.species, "H2O"))
  IN  a.pc # "idle" =>
        /\ nelem(this.nonlinear_species) > 0 =>
              /\ n_h2o = 0 => a.error = "NoHumidityReferenceSpecies"
              /\ n_h2o # 1 => a.pc # "returned"
        /\ nelem(this.nonlinear_species) = 0 =>
              a.error # "NoHumidityReferenceSpecies"

\* C21: with nonlinear species Extract requires at least one species of
\* the table to be H2O: it fails with NoHumidityReferenceSpecies if and only
\* if none is; without nonlinear species it never fails with this error.
C21_AtLeastOneH2O ==
  LET a == extract[1]
  IN  a.pc # "idle" =>
        (a.error = "NoHumidityReferenceSpecies"
           <=> /\ nelem(this.nonlinear_species) > 0
               /\ Occurrences(this.species, "H2O") = {})

\* A call has returned on a table with a nonlinear species and two H2O
\* species.
C21_Witness ==
  /\ extract[1].pc = "returned"
  /\ nelem(this.nonlinear_species) > 0
  /\ Cardinality(Occurrences(this.species, "H2O")) = 2

\* The table has neither a temperature axis nor nonlinear species, and its
\* log_p_grid is the log of its p_grid.
PlainAdapted(t) ==
  /\ nelem(t.t_pert) = 0
  /\ nelem(t.nonlinear_species) = 0
  /\ t.log_p_grid = LogOf(t)

C23_NoPartialResult ==
  /\ [](\A c \in Callers :
          extract[c].pc = "failed" => extract[c].sga = NoCall.sga)
  /\ [][\A c \in Callers :
          extract'[c].sga # extract[c].sga
            => extract[c].pc = "levels" /\ extract'[c].pc = "returned"]_vars

\* A call has failed with a range error at its second pressure level, after
\* a whole pass of the loop, and sga is as it was.
C23_Witness ==
  /\ extract[1].pc = "failed"
  /\ extract[1].error \in {"TemperatureOutOfRange", "HumidityOutOfRange"}
  /\ extract[1].pi = 1
  /\ extract[1].sga = NoCall.sga

\* The number of slices of xsec that species k of table t takes: n_hpert if
\* k is among the nonlinear species, else 1.
SlicesOf(t, k) ==
  IF \E s \in DOMAIN t.nonlinear_species : t.nonlinear_species[s] = k
  THEN nelem(t.nls_pert) ELSE 1

\* The sum of the slice counts of the species of table t at the positions
\* idx[0], ..., idx[i-1].
RECURSIVE SlicesBefore(_, _, _)
SlicesBefore(t, idx, i) ==
  IF i = 0 THEN 0
  ELSE SlicesBefore(t, idx, i - 1) + SlicesOf(t, idx[i - 1])

\* The positions 0, 1, ... of all species of table t.
AllPositions(t) == [k \in DOMAIN t.species |-> k]

\* C24: after a successful Adapt, for every requested species i found at
\* position k of the table, every v below the slice count of k, every
\* requested frequency f, every perturbation t and every pressure q:
\* xsec'(t, off'(i)+v, f, q) = xsec(t, off(k)+v, pos[f], q), with off(k) the
\* slices of the species before k in the table and off'(i) those of the
\* requested species before i, in whatever order nonlinear_species lists
\* its entries and whatever species are requested in whatever order.
C24_XsecCopy ==
  (CallEnded /\ LastOutcome = "ok") =>
    \A i \in DOMAIN i_current_species :
      LET k == i_current_species[i]
      IN  \A v \in 0..SlicesOf(before, k) - 1,
             f \in DOMAIN i_current_f_grid,
             t \in 0..before.xsec.nbooks - 1,
             q \in 0..before.xsec.ncols - 1 :
            LET from == <<t, SlicesBefore(before, AllPositions(before), k) + v,
                          i_current_f_grid[f], q>>
                to == <<t, SlicesBefore(before, i_current_species, i) + v,
                        f, q>>
            IN  /\ from \in DOMAIN before.xsec.data
                /\ to \in DOMAIN this.xsec.data
                /\ this.xsec.data[to] = before.xsec.data[from]

\* C25: after a successful Adapt p_grid, t_ref and t_pert are those of the
\* table before the call, whatever was requested, and vmrs_ref has one row
\* for every requested species and a column for every pressure, row i being
\* the row the table had for the species found for request i.
C25_ProfilesCopied ==
  (CallEnded /\ LastOutcome = "ok") =>
    /\ this.p_grid = before.p_grid
    /\ this.t_ref = before.t_ref
    /\ this.t_pert = before.t_pert
    /\ this.vmrs_ref.nrows = nelem(current_species)
    /\ this.vmrs_ref.ncols = nelem(before.p_grid)
    /\ DOMAIN this.vmrs_ref.data
         = Index2(nelem(current_species), nelem(before.p_grid))
    /\ \A i \in DOMAIN current_species, q \in DOMAIN before.p_grid :
         /\ before.species[i_current_species[i]] = current_species[i]
         /\ this.vmrs_ref.data[<<i, q>>]
              = before.vmrs_ref.data[<<i_current_species[i], q>>]

\* Adapt has succeeded with a request for the second species of the table
\* alone, on a table with temperature perturbations.
C25_Witness ==
  /\ CallEnded
  /\ LastOutcome = "ok"
  /\ nelem(current_species) = 1
  /\ i_current_species[0] = 1
  /\ nelem(before.t_pert) > 0
  /\ nelem(before.p_grid) > 1

\* Table t satisfies the invariants of the data model that bear on its
\* shape: the dimensions Extract asserts, nonlinear species that are
\* distinct positions of the species list, and nls_pert empty exactly if
\* there is no nonlinear species.
DataModelHolds(t) ==
  /\ ExtractAssertsHold(t)
  /\ ~WritesOutsideNonLinear(t)
  /\ is_unique(t.nonlinear_species)
  /\ nelem(t.nls_pert) = 0 <=> nelem(t.nonlinear_species) = 0

\* None of the range checks of Extract on table t reads beside a grid.
NoBoundsReadOutside(t) ==
  /\ ~BoundsReadOutside(t.p_grid)
  /\ ~BoundsReadOutside(t.t_pert)
  /\ ~BoundsReadOutside(t.nls_pert)

\* C26: on a table that satisfies the data model, at every pressure level
\* fpi starts at 0, grows by n_nls_pert after a nonlinear species and by 1
\* after another one, and is xsec.npages() = n_species + n_nls *
\* (n_nls_pert - 1) after the last species, so that the assertion behind the
\* loop over the species holds; fpi for species s is the position that
\* Adapt computes for s.
C26_FpiOffsets ==
  LET t == this
      non_linear == NonLinearFlags(t)
      n_nls_pert == nelem(t.nls_pert)
      n_species == nelem(t.species)
      fpi(si) == ExtractFpi(non_linear, n_nls_pert, si)
  IN  (extract[1].pc # "idle" /\ DataModelHolds(t)) =>
        /\ fpi(0) = 0
        /\ \A si \in DOMAIN t.species :
             /\ fpi(si + 1) - fpi(si) = SlicesOf(t, si)
             /\ fpi(si) = OriginalSpecPosInXsec(t)[si]
        /\ fpi(n_species)
             = n_species + nelem(t.nonlinear_species) * (n_nls_pert - 1)
        /\ fpi(n_species) = t.xsec.npages
        /\ NoBoundsReadOutside(t) => extract[1].pc # "aborted"

\* A call has passed the loop over the species on a table whose first
\* species is nonlinear and has several profiles, so that fpi is not the
\* position of the species.
C26_Witness ==
  /\ extract[1].pc = "returned"
  /\ DataModelHolds(this)
  /\ nelem(this.species) > 1
  /\ NonLinearFlags(this)[0] # 0
  /\ nelem(this.nls_pert) > 1

\* C27: the grid locator reads the old grid at indices 0..m-1 only, for
\* every old grid of m points, also for m = 0 with a new grid that is not
\* empty: j is compared with m before old_grid[j] is read, a new frequency
\* without a match is reported by the error and not by a read outside the
\* grid, and j is increased at most m times in a call.
C27_ReadsInsideOldGrid ==
  pc # "idle" =>
    /\ pc # "aborted"
    /\ \A g \in OutsideValues(GridValues) \cup {0} :
         LET r == find_new_grid_in_old_grid(this.f_grid, current_f_grid, g)
         IN  /\ r.reads \subseteq DOMAIN this.f_grid
             /\ r.j <= nelem(this.f_grid)

\* C28: for every table and all orders that pass the order checks of
\* Extract, also with p_grid, t_pert or nls_pert of one point and order 0,
\* the range checks of p, of the temperature offset and of the fractional
\* VMR read their grid at indices 0..n-1 only: the bounds are never
\* computed from an element [1] or [n-2] that the grid does not have.
C28_BoundsReadInsideGrids ==
  LET a == extract[1]
  IN  (a.pc # "idle" /\ PressureCheckReached(this, a)) =>
        /\ ~BoundsReadOutside(this.p_grid)
        /\ (PressureAccepted(a) /\ nelem(this.t_pert) > 0)
             => ~BoundsReadOutside(this.t_pert)
        /\ (PressureAccepted(a) /\ nelem(this.nonlinear_species) > 0
               /\ a.pc \in {"returned", "failed"}
               /\ a.error # "TemperatureOutOfRange")
             => ~BoundsReadOutside(this.nls_pert)


\* Adapt has succeeded on a table that passes Extract's humidity-reference
\* check.
AdaptedFromChecked ==
  /\ CallEnded /\ LastOutcome = "ok"
  /\ ~(nelem(before.nonlinear_species) > 0 /\ H2OIndex(before) = -1)

\* The request keeps a species that is nonlinear in table t.
KeepsNonlinear(t, i_species) ==
  \E i \in DOMAIN i_species : NonLinearFlags(t)[i_species[i]] # 0

\* C29: whenever Adapt succeeds on a table that passes Extract's
\* humidity-reference check and the new table still has a nonlinear species,
\* the new table also has the H2O species, so Extract on it does not fail
\* with NoHumidityReferenceSpecies.
C29_AdaptKeepsH2O ==
  (AdaptedFromChecked /\ nelem(this.nonlinear_species) > 0)
     => /\ Occurrences(this.species, "H2O") # {}
        /\ extract[1].error # "NoHumidityReferenceSpecies"

\* C29, as the code has it: Adapt does not look for the H2O species.  The
\* new table has H2O exactly if the request has, and it has a nonlinear
\* species exactly if the request keeps one; Extract on the new table fails
\* with NoHumidityReferenceSpecies exactly if a nonlinear species is kept
\* and H2O is not requested.
C29_H2OKeptIffRequested ==
  /\ [](CallEnded /\ LastOutcome = "ok"
          => /\ Occurrences(this.species, "H2O") # {}
                  <=> Occurrences(current_species, "H2O") # {}
             /\ nelem(this.nonlinear_species) > 0
                  <=> KeepsNonlinear(before, i_current_species))
  /\ [][(ExtractStarts(1) /\ Len(outcomes) > 0 /\ LastOutcome = "ok")
          => (extract'[1].error = "NoHumidityReferenceSpecies"
                <=> /\ KeepsNonlinear(before, i_current_species)
                    /\ Occurrences(current_species, "H2O") = {})]_vars

\* Adapt has dropped H2O from a table that had it and has kept a nonlinear
\* species, and Extract on the new table has failed for it.
C29_Witness ==
  /\ AdaptedFromChecked
  /\ Occurrences(before.species, "H2O") # {}
  /\ nelem(this.nonlinear_species) > 0
  /\ Occurrences(this.species, "H2O") = {}
  /\ extract[1].error = "NoHumidityReferenceSpecies"


\* Row k of matrix m, as a function of the column.
RowOf(m, k) == [c \in 0..m.ncols - 1 |-> m.data[<<k, c>>]]

\* The call of caller 1 with another frequency index, run alone on the
\* same table.
WithFrequency(k) == ExtractAlone(this, [extract[1] EXCEPT !.f_index = k])

====
